---- MODULE Spec2Model ----
(***************************************************************************)
(* GURPS Manager: the database schema of apps/gurps_manager/models.py.     *)
(*                                                                         *)
(* Three specifications share the module:                                  *)
(*   SpecQuarter  one call of the field validator validate_quarter;        *)
(*   SpecDerived  one Character instance, assignments to its integer       *)
(*                fields and calls of its derived-field methods;           *)
(*   Spec         the tables of the schema: validated writes, deletes and  *)
(*                the cascade along the foreign keys.                      *)
(***************************************************************************)
EXTENDS Integers, Sequences, FiniteSets, TLC

VARIABLES
    number,     \* the argument of the validate_quarter call
    outcome,    \* how that call ended: "pending" until it has run
    character,  \* a Character instance: its integer fields
    result,     \* the last derived-field call on it: method and what it gave
    db,         \* the database: for each table, its rows by primary key
    response    \* how the last write or delete on the database ended

quarterVars == <<number, outcome>>
derivedVars == <<character, result>>
storeVars   == <<db, response>>

vars == <<number, outcome, character, result, db, response>>

(***************************************************************************)
(* Floats.  A Python float is m * 2^e, an infinity or a NaN.               *)
(***************************************************************************)
Finite(m, e) == [kind |-> "finite", m |-> m, e |-> e]
Infinity(s)  == [kind |-> "inf", m |-> s, e |-> 0]
NaN          == [kind |-> "nan", m |-> 0, e |-> 0]

(***************************************************************************)
(* Natural numbers of any size, as Python's Decimal keeps its coefficient: *)
(* a sequence of decimal digits, here the units digit first.  <<>> is 0.   *)
(***************************************************************************)
RECURSIVE NatDigits(_)
NatDigits(n) == IF n = 0 THEN <<>> ELSE <<n % 10>> \o NatDigits(n \div 10)

RECURSIVE MulCarry(_, _, _)
MulCarry(ds, k, carry) ==
    IF ds = <<>> THEN NatDigits(carry)
    ELSE LET p == Head(ds) * k + carry
         IN  <<p % 10>> \o MulCarry(Tail(ds), k, p \div 10)

RECURSIVE Pow(_, _)
Pow(k, n) == IF n = 0 THEN 1 ELSE k * Pow(k, n - 1)

\* ds * k^n for k < 10, eight factors of k at a time
RECURSIVE MulPow(_, _, _)
MulPow(ds, k, n) ==
    IF n <= 8 THEN MulCarry(ds, Pow(k, n), 0)
    ELSE MulPow(MulCarry(ds, Pow(k, 8), 0), k, n - 8)

RECURSIVE Increment(_)
Increment(ds) ==
    IF ds = <<>> THEN <<1>>
    ELSE IF Head(ds) < 9 THEN <<Head(ds) + 1>> \o Tail(ds)
    ELSE <<0>> \o Increment(Tail(ds))

RECURSIVE Zeros(_)
Zeros(n) == IF n = 0 THEN <<>> ELSE <<0>> \o Zeros(n - 1)

AllZero(ds) == \A i \in 1..Len(ds) : ds[i] = 0

Abs(x) == IF x < 0 THEN 0 - x ELSE x

(***************************************************************************)
(* Python's decimal module, as far as line 42 of models.py uses it.  A     *)
(* Decimal is a sign, a coefficient and an exponent, or a special value.   *)
(***************************************************************************)
\* decimal.getcontext().prec, the default context's precision
DecimalPrec == 28

Dec(special, sign, int, exp) ==
    [special |-> special, sign |-> sign, int |-> int, exp |-> exp]

\* float.as_integer_ratio: m * 2^e in lowest terms, as <<n, k>> for n / 2^k
RECURSIVE AsIntegerRatio(_, _)
AsIntegerRatio(m, e) ==
    IF m = 0 THEN <<0, 0>>
    ELSE IF e >= 0 THEN <<m, 0 - e>>
    ELSE IF m % 2 = 0 THEN AsIntegerRatio(m \div 2, e + 1)
    ELSE <<m, 0 - e>>

\* Decimal(number) for a float: Decimal.from_float, which is exact
DecimalFromFloat(f) ==
    IF f.kind = "nan" THEN Dec("nan", 0, <<>>, 0)
    ELSE IF f.kind = "inf" THEN Dec("inf", IF f.m < 0 THEN 1 ELSE 0, <<>>, 0)
    ELSE LET r == AsIntegerRatio(f.m, f.e)
             n == NatDigits(Abs(r[1]))
             k == r[2]
             sign == IF f.m < 0 THEN 1 ELSE 0
         IN  IF k <= 0
             THEN Dec("none", sign, MulPow(n, 2, 0 - k), 0)
             ELSE Dec("none", sign, MulPow(n, 5, k), 0 - k)

\* len(self._int): the coefficient of zero is the one digit '0'
NumDigits(ds) == IF ds = <<>> THEN 1 ELSE Len(ds)

\* Decimal._rescale(exp, ROUND_HALF_EVEN) of a finite, nonzero Decimal
Rescale(d, exp) ==
    IF d.exp >= exp
    THEN Dec("none", d.sign, Zeros(d.exp - exp) \o d.int, exp)
    ELSE LET drop == exp - d.exp
         IN  IF drop > Len(d.int) THEN Dec("none", d.sign, <<>>, exp)
             ELSE LET kept == SubSeq(d.int, drop + 1, Len(d.int))
                      top  == d.int[drop]
                      rest == SubSeq(d.int, 1, drop - 1)
                      half == top = 5 /\ AllZero(rest)
                      up   == IF half
                              THEN kept # <<>> /\ kept[1] % 2 = 1
                              ELSE top >= 5
                  IN  Dec("none", d.sign,
                          IF up THEN Increment(kept) ELSE kept, exp)

\* Decimal.quantize(Decimal('0.01')): <<raised, value>>
Quantize(d, exp) ==
    IF d.special = "nan" THEN <<"none", d>>
    ELSE IF d.special = "inf" THEN <<"InvalidOperation", d>>
    ELSE IF d.int = <<>> THEN <<"none", Dec("none", d.sign, <<>>, exp)>>
    ELSE IF (d.exp + Len(d.int) - 1) - exp + 1 > DecimalPrec
         THEN <<"InvalidOperation", d>>
    ELSE LET ans == Rescale(d, exp)
         IN  IF NumDigits(ans.int) > DecimalPrec
             THEN <<"InvalidOperation", d>>
             ELSE <<"none", ans>>

RECURSIVE DigitsValue(_)
DigitsValue(ds) ==
    IF ds = <<>> THEN 0 ELSE Head(ds) + 10 * DigitsValue(Tail(ds))

RECURSIVE DigitsMod(_, _)
DigitsMod(ds, k) ==
    IF ds = <<>> THEN 0 ELSE (Head(ds) + 10 * DigitsMod(Tail(ds), k)) % k

\* a % b for a already quantized to b's exponent: the remainder keeps a's sign
Remainder(a, b) ==
    IF a.special = "nan" THEN a
    ELSE Dec("none", a.sign, NatDigits(DigitsMod(a.int, DigitsValue(b.int))),
             a.exp)

\* a != b for b a zero: a NaN is unequal to everything
NotEqualZero(a) == a.special = "nan" \/ a.int # <<>>

\* Decimal('0.01').as_tuple().exponent
HundredthExp == 0 - 2

(***************************************************************************)
(* validate_quarter(number): "returned", or the exception it raised.       *)
(***************************************************************************)
validate_quarter(f) ==
    LET q == Quantize(DecimalFromFloat(f), HundredthExp)
    IN  IF q[1] # "none" THEN q[1]
        ELSE IF NotEqualZero(
                    Remainder(q[2], DecimalFromFloat(Finite(1, 0 - 2))))
             THEN "ValidationError"
             ELSE "returned"

(***************************************************************************)
(* Character: the integer fields its derived fields are computed from.     *)
(* (magery, bonus_speed, bonus_movement, bonus_dodge and the free_* fields *)
(* are read by no method of the class and are left out of the instance.)   *)
(***************************************************************************)
IntegerFields ==
    {"strength", "dexterity", "intelligence", "health",
     "bonus_fatigue", "bonus_hitpoints", "bonus_alertness",
     "bonus_willpower", "bonus_fright", "bonus_initiative"}

\* the methods class Character defines
CharacterMethods == {"fatigue", "hitpoints", "alertness", "will", "fright"}

Return(v) == [raised |-> "none", value |-> v]
Raise(exc) == [raised |-> exc, value |-> 0]

\* self.<name>: an attribute the instance lacks raises AttributeError
GetAttr(self, name) ==
    IF name \in DOMAIN self THEN Return(self[name])
    ELSE Raise("AttributeError")

\* a + b, the operands evaluated left to right
Add(a, b) ==
    IF a.raised # "none" THEN a
    ELSE IF b.raised # "none" THEN b
    ELSE Return(a.value + b.value)

\* fatigue with the bonus of the neighbouring method
fatigue_wrong_bonus(self) ==
    Add(GetAttr(self, "strength"), GetAttr(self, "bonus_hitpoints"))

fatigue(self) == Add(GetAttr(self, "strength"), GetAttr(self, "bonus_fatigue"))

hitpoints(self) == Add(GetAttr(self, "health"), GetAttr(self, "bonus_hitpoints"))

alertness(self) ==
    Add(GetAttr(self, "intelligence"), GetAttr(self, "bonus_alertness"))

will(self) == Add(GetAttr(self, "intelligence"), GetAttr(self, "bonus_will"))

fright(self) == Add(GetAttr(self, "intelligence"), GetAttr(self, "bonus_fright"))

\* character.<name>(): a method the class lacks raises AttributeError
CallMethod(self, name) ==
    IF name \notin CharacterMethods THEN Raise("AttributeError")
    ELSE CASE name = "fatigue"   -> fatigue(self)
           [] name = "hitpoints" -> hitpoints(self)
           [] name = "alertness" -> alertness(self)
           [] name = "will"      -> will(self)
           [] name = "fright"    -> fright(self)

(***************************************************************************)
(* The schema.  Of every model the columns kept are its foreign keys, its  *)
(* quarter-validated floats and its integer lookup fields; names, texts    *)
(* and the integers that carry no validator or reference are left out, and  *)
(* so is the link table behind Campaign.skillsets, which has none of them  *)
(* and is referenced by no table.                                          *)
(***************************************************************************)
Tables ==
    {"Campaign", "SkillSet", "Character", "Trait", "Skill", "CharacterSkill",
     "Spell", "CharacterSpell", "Item", "Possession", "HitLocation"}

\* models.ForeignKey(<target>): field |-> target
ForeignKeys(t) ==
    CASE t = "Character"      -> [campaign |-> "Campaign"]
      [] t = "Trait"          -> [character |-> "Character"]
      [] t = "Skill"          -> [skillset |-> "SkillSet"]
      [] t = "CharacterSkill" -> [skill |-> "Skill", character |-> "Character"]
      [] t = "CharacterSpell" -> [spell |-> "Spell", character |-> "Character"]
      [] t = "Possession"     -> [item |-> "Item", character |-> "Character"]
      [] t = "HitLocation"    -> [character |-> "Character"]
      [] OTHER                -> <<>>

\* models.FloatField(validators=[validate_quarter])
QuarterFields(t) ==
    CASE t = "Character" -> {"total_points", "used_fatigue"}
      [] t \in {"Trait", "CharacterSkill", "CharacterSpell"} -> {"points"}
      [] OTHER -> {}

\* the fields under a "# lookup fields" comment
LookupFields(t) ==
    CASE t = "Character" ->
             {"appearance", "wealth", "eidetic_memory", "muscle_memory"}
      [] t = "Skill" -> {"category", "difficulty"}
      [] t = "Spell" -> {"difficulty"}
      [] OTHER -> {}

\* the choices= of a lookup field; {} where the field declares none
Choices(t, f) ==
    CASE t = "Skill" /\ f = "category"   -> 1..4
      [] t = "Skill" /\ f = "difficulty" -> 1..4
      [] t = "Spell" /\ f = "difficulty" -> 1..2
      [] OTHER -> {}

\* The tables whose rows reference a Character.
CharacterSheet ==
    {"Trait", "HitLocation", "CharacterSkill", "CharacterSpell", "Possession"}

(***************************************************************************)
(* Model.full_clean() on a row about to be written: every validator of     *)
(* every field runs.  A ValidationError is collected and reported; any     *)
(* other exception a validator raises goes through to the caller.          *)
(***************************************************************************)
ChoiceValid(t, f, v) == Choices(t, f) = {} \/ v \in Choices(t, f)

ReferenceValid(data, t, f, v) == v \in DOMAIN data[ForeignKeys(t)[f]]

\* the floats a client submits, and validate_quarter on each of them
SubmittedFloats ==
    {Finite(1, 0 - 2), Finite(1, 0 - 8), Finite(33, 0 - 7)}

RunValidateQuarter == [f \in SubmittedFloats |-> validate_quarter(f)]

FullClean(data, t, row) ==
    LET raised == {RunValidateQuarter[row[f]] : f \in QuarterFields(t)}
    IN  IF "InvalidOperation" \in raised THEN "InvalidOperation"
        ELSE IF \/ "ValidationError" \in raised
                \/ \E f \in LookupFields(t) : ~ChoiceValid(t, f, row[f])
                \/ \E f \in DOMAIN ForeignKeys(t) :
                       ~ReferenceValid(data, t, f, row[f])
             THEN "ValidationError"
             ELSE "valid"

(***************************************************************************)
(* Model.delete(): every ForeignKey of the schema is declared without      *)
(* on_delete, which is CASCADE: the rows that reference a deleted row are  *)
(* deleted with it, and so are the rows that reference those.              *)
(***************************************************************************)
AllRows(data) == UNION {{<<t, i>> : i \in DOMAIN data[t]} : t \in Tables}

\* Referrers, the foreign key of Trait not followed
ReferrersButTraits(data, S) ==
    {r \in AllRows(data) :
        /\ r[1] # "Trait"
        /\ \E f \in DOMAIN ForeignKeys(r[1]) :
               <<ForeignKeys(r[1])[f], data[r[1]][r[2]][f]>> \in S}

\* the rows with a foreign key to one of the rows in S
Referrers(data, S) ==
    {r \in AllRows(data) :
        \E f \in DOMAIN ForeignKeys(r[1]) :
            <<ForeignKeys(r[1])[f], data[r[1]][r[2]][f]>> \in S}

RECURSIVE Collect(_, _)
Collect(data, S) ==
    LET more == S \cup Referrers(data, S)
    IN  IF more = S THEN S ELSE Collect(data, more)

Without(data, S) ==
    [t \in Tables |->
        [i \in {j \in DOMAIN data[t] : <<t, j>> \notin S} |-> data[t][i]]]

(***************************************************************************)
(* The operations on the database.  A write validates the row and then     *)
(* saves it; the database gives a new row the first free primary key.      *)
(***************************************************************************)
NewId(rows) ==
    CHOOSE n \in 1..(Cardinality(DOMAIN rows) + 1) :
        /\ n \notin DOMAIN rows
        /\ \A m \in 1..(n - 1) : m \in DOMAIN rows

Save(data, t, id, row) ==
    [data EXCEPT ![t] =
        [i \in DOMAIN @ \cup {id} |-> IF i = id THEN row ELSE @[i]]]

\* caps: how many rows the database (caps.rows) and each of its tables
\* (caps.each) may hold, so that the state space is finite
HasRoom(data, t, caps) ==
    /\ Cardinality(AllRows(data)) < caps.rows
    /\ Cardinality(DOMAIN data[t]) < caps.each

\* what the client is told: how the request ended and, of a delete, the
\* table it was on and how many rows it removed
Response(t, status, removed) ==
    [table |-> t, status |-> status, removed |-> removed]

Create(t, row, caps) ==
    /\ HasRoom(db, t, caps)
    /\ LET checked == FullClean(db, t, row)
       IN  IF checked = "valid"
           THEN /\ db' = Save(db, t, NewId(db[t]), row)
                /\ response' = Response("none", "saved", 0)
           ELSE /\ db' = db
                /\ response' = Response("none", checked, 0)
    /\ UNCHANGED <<quarterVars, derivedVars>>

Update(t, id, row) ==
    /\ LET checked == FullClean(db, t, row)
       IN  IF checked = "valid"
           THEN /\ db' = Save(db, t, id, row)
                /\ response' = Response("none", "saved", 0)
           ELSE /\ db' = db
                /\ response' = Response("none", checked, 0)
    /\ UNCHANGED <<quarterVars, derivedVars>>

Delete(t, id) ==
    /\ LET collected == Collect(db, {<<t, id>>})
       IN  /\ db' = Without(db, collected)
           /\ response' = Response(t, "deleted", Cardinality(collected))
    /\ UNCHANGED <<quarterVars, derivedVars>>

(***************************************************************************)
(* Each specification leaves the variables of the others at rest.          *)
(***************************************************************************)
NoCall == [method |-> "none", raised |-> "none", value |-> 0]

QuarterIdle ==
    /\ number = NaN
    /\ outcome = "idle"

DerivedIdle ==
    /\ character = [f \in IntegerFields |-> 0]
    /\ result = NoCall

EmptyDatabase == [t \in Tables |-> <<>>]

StoreIdle ==
    /\ db = EmptyDatabase
    /\ response = Response("none", "idle", 0)

(***************************************************************************)
(* SpecQuarter: validate_quarter is called once on a float.                *)
(***************************************************************************)
MaxMant == 40
MaxFrac == 8
HugeExp == 87

FloatExps == ((0 - MaxFrac)..1) \cup {HugeExp - 1, HugeExp}

FloatInputs ==
    {Finite(m, e) : m \in (0 - MaxMant)..MaxMant, e \in FloatExps}
        \cup {Infinity(1), Infinity(0 - 1), NaN}

InitQuarter ==
    /\ number \in FloatInputs
    /\ outcome = "pending"
    /\ DerivedIdle
    /\ StoreIdle

CallValidateQuarter ==
    /\ outcome = "pending"
    /\ outcome' = validate_quarter(number)
    /\ UNCHANGED <<number, derivedVars, storeVars>>

NextQuarter == CallValidateQuarter

SpecQuarter == InitQuarter /\ [][NextQuarter]_vars

(***************************************************************************)
(* SpecDerived: assignments to the fields of one Character and calls of    *)
(* the derived-field methods that test_models.py calls on it.              *)
(***************************************************************************)
MaxInt == 1

IntVals == {0 - 1} \cup (1..MaxInt)

CalledMethods ==
    {"fatigue", "hitpoints", "alertness", "will", "fright", "initiative",
     "no_encumbrance", "light_encumbrance", "medium_encumbrance",
     "heavy_encumbrance", "extra_heavy_encumbrance"}

InitDerived ==
    /\ character \in [IntegerFields -> IntVals]
    /\ result = NoCall
    /\ QuarterIdle
    /\ StoreIdle

\* character.<field> = v
SetField(field, v) ==
    /\ character' = [character EXCEPT ![field] = v]
    /\ result' = NoCall
    /\ UNCHANGED <<quarterVars, storeVars>>

\* character.<name>()
Call(name) ==
    /\ LET r == CallMethod(character, name)
       IN  result' = [method |-> name, raised |-> r.raised, value |-> r.value]
    /\ UNCHANGED <<character, quarterVars, storeVars>>

NextDerived ==
    \/ \E field \in IntegerFields, v \in IntVals : SetField(field, v)
    \/ \E name \in CalledMethods : Call(name)

SpecDerived == InitDerived /\ [][NextDerived]_vars

(***************************************************************************)
(* The rows a client may submit: every foreign key among refs, every       *)
(* quarter field among the floats Q, every lookup field among L.           *)
(***************************************************************************)
Payloads(t, refs, Q, L) ==
    CASE t = "Character" ->
             [campaign : refs["Campaign"], total_points : Q, used_fatigue : Q,
              appearance : L, wealth : L, eidetic_memory : L,
              muscle_memory : L]
      [] t = "Trait"          -> [character : refs["Character"], points : Q]
      [] t = "Skill"          ->
             [skillset : refs["SkillSet"], category : L, difficulty : L]
      [] t = "CharacterSkill" ->
             [skill : refs["Skill"], character : refs["Character"], points : Q]
      [] t = "Spell"          -> [difficulty : L]
      [] t = "CharacterSpell" ->
             [spell : refs["Spell"], character : refs["Character"], points : Q]
      [] t = "Possession"     ->
             [item : refs["Item"], character : refs["Character"]]
      [] t = "HitLocation"    -> [character : refs["Character"]]
      [] OTHER                -> {<<>>}

\* the primary keys a client may name: those of the rows there are, and 0,
\* the key of no row
Keys(data) == [t \in Tables |-> DOMAIN data[t] \cup {0}]

InitStore ==
    /\ db = EmptyDatabase
    /\ response = Response("none", "none", 0)
    /\ QuarterIdle
    /\ DerivedIdle

(***************************************************************************)
(* Spec: creates, updates and deletes on every table, each submitted field *)
(* holding a value its validators accept.                                  *)
(***************************************************************************)
MaxRows == 4

Caps == [rows |-> MaxRows, each |-> MaxRows]

\* 0.25
ValidQuarters == {f \in SubmittedFloats : f.e = 0 - 2}

ValidLookups == {1}

Next ==
    \/ \E t \in Tables :
           \E row \in Payloads(t, Keys(db), ValidQuarters, ValidLookups) :
               Create(t, row, Caps)
    \/ \E t \in Tables : \E id \in DOMAIN db[t] :
           \E row \in Payloads(t, Keys(db), ValidQuarters, ValidLookups) :
               Update(t, id, row)
    \/ \E t \in Tables : \E id \in DOMAIN db[t] : Delete(t, id)

Spec == InitStore /\ [][Next]_vars

(***************************************************************************)
(* SpecWrite: the same operations, at most MaxPerTable rows a table, the   *)
(* submitted fields holding valid and invalid values.                      *)
(***************************************************************************)
MaxWriteRows == 5
MaxPerTable == 1

WriteCaps == [rows |-> MaxWriteRows, each |-> MaxPerTable]

\* 0.25, 0.00390625 and 0.2578125
QuarterInputs == SubmittedFloats

LookupInputs == {1, 5}

NextWrite ==
    \/ \E t \in Tables :
           \E row \in Payloads(t, Keys(db), QuarterInputs, LookupInputs) :
               Create(t, row, WriteCaps)
    \/ \E t \in Tables : \E id \in DOMAIN db[t] :
           \E row \in Payloads(t, Keys(db), QuarterInputs, LookupInputs) :
               Update(t, id, row)
    \/ \E t \in Tables : \E id \in DOMAIN db[t] : Delete(t, id)

SpecWrite == InitStore /\ [][NextWrite]_vars

(***************************************************************************)
(* Claims about validate_quarter (SpecQuarter).                            *)
(***************************************************************************)
\* f is an integer multiple of 0.25 = 2^-2
IsQuarterMultiple(f) ==
    /\ f.kind = "finite"
    /\ \/ f.m = 0
       \/ f.e >= 0 - 2
       \/ f.m % Pow(2, 0 - 2 - f.e) = 0

\* |f| in hundredths, rounded to the nearest (a tie to the even neighbour),
\* for a finite f = m * 2^e with e < 0
RoundedHundredths(f) ==
    LET num == Abs(f.m) * 100
        den == Pow(2, 0 - f.e)
        q   == num \div den
        r   == num % den
    IN  IF 2 * r > den \/ (2 * r = den /\ q % 2 = 1) THEN q + 1 ELSE q

\* f, rounded to two decimal places, is an integer multiple of 0.25
RoundsToQuarterMultiple(f) ==
    /\ f.kind = "finite"
    /\ \/ f.e >= 0
       \/ RoundedHundredths(f) % 25 = 0

\* C1: for every value that, rounded to two decimal places, is an integer
\* multiple of 0.25, validate_quarter returns without raising any error.
C1_QuarterMultiplesReturn ==
    (outcome \notin {"pending", "idle"} /\ RoundsToQuarterMultiple(number))
        => outcome = "returned"

\* C2: for every value that is not a multiple of 0.25, validate_quarter
\* raises a ValidationError: no non-multiple of 0.25 is accepted.
C2_NonMultiplesRejected ==
    (outcome \notin {"pending", "idle"} /\ ~IsQuarterMultiple(number))
        => outcome = "ValidationError"

(***************************************************************************)
(* Claims about the derived fields of Character (SpecDerived).             *)
(***************************************************************************)
Returned(name, v) ==
    result.method = name => (result.raised = "none" /\ result.value = v)

\* C5: will() returns intelligence + bonus_willpower.
C5_WillIsIntelligencePlusBonus ==
    Returned("will", character.intelligence + character.bonus_willpower)

\* C6: fatigue() returns strength + bonus_fatigue, hitpoints() returns
\* health + bonus_hitpoints, alertness() returns intelligence +
\* bonus_alertness and fright() returns intelligence + bonus_fright.
C6_SumsOfBaseAndBonus ==
    /\ Returned("fatigue", character.strength + character.bonus_fatigue)
    /\ Returned("hitpoints", character.health + character.bonus_hitpoints)
    /\ Returned("alertness",
                character.intelligence + character.bonus_alertness)
    /\ Returned("fright", character.intelligence + character.bonus_fright)

\* C6's case: fatigue() has returned on a character whose strength and
\* bonus_fatigue differ from its health and bonus_hitpoints.
C6_Witness ==
    /\ result.method = "fatigue"
    /\ result.raised = "none"
    /\ result.value = 2
    /\ character.bonus_fatigue # character.bonus_hitpoints
    /\ character.strength # character.health

\* C7: initiative() returns ((intelligence + dexterity) / 4) +
\* bonus_initiative, the division exact.  Stated times four: the value
\* returned, v, satisfies 4 * v = intelligence + dexterity + 4 * bonus.
C7_InitiativeFormula ==
    result.method = "initiative" =>
        /\ result.raised = "none"
        /\ 4 * result.value = character.intelligence + character.dexterity
                                  + 4 * character.bonus_initiative

\* C8: no_encumbrance() returns strength * 2, light_encumbrance() strength
\* * 4, medium_encumbrance() strength * 6, heavy_encumbrance() strength *
\* 12 and extra_heavy_encumbrance() strength * 20.
C8_EncumbranceMultiples ==
    /\ Returned("no_encumbrance", character.strength * 2)
    /\ Returned("light_encumbrance", character.strength * 4)
    /\ Returned("medium_encumbrance", character.strength * 6)
    /\ Returned("heavy_encumbrance", character.strength * 12)
    /\ Returned("extra_heavy_encumbrance", character.strength * 20)

\* The value section 4.2 of the specification gives each derived field that
\* returns an integer (initiative, a quotient, is C7's).
Formula(name, c) ==
    CASE name = "fatigue"   -> c.strength + c.bonus_fatigue
      [] name = "hitpoints" -> c.health + c.bonus_hitpoints
      [] name = "alertness" -> c.intelligence + c.bonus_alertness
      [] name = "will"      -> c.intelligence + c.bonus_willpower
      [] name = "fright"    -> c.intelligence + c.bonus_fright
      [] name = "no_encumbrance"          -> c.strength * 2
      [] name = "light_encumbrance"       -> c.strength * 4
      [] name = "medium_encumbrance"      -> c.strength * 6
      [] name = "heavy_encumbrance"       -> c.strength * 12
      [] name = "extra_heavy_encumbrance" -> c.strength * 20

\* C10: after any sequence of assignments to the base fields, a call of a
\* derived-field method returns the formula applied to the values the
\* fields hold at the time of the call, and leaves every field unchanged.
C10_RecomputedOnEveryAccess ==
    [][(result'.method \notin {"none", "initiative"} /\ result' # result) =>
          /\ character' = character
          /\ result'.raised = "none"
          /\ result'.value = Formula(result'.method, character)]_vars

(***************************************************************************)
(* Claims about the database (Spec and SpecWrite).                         *)
(***************************************************************************)
\* C3: after any sequence of creates and updates every stored quarter field
\* (Character.total_points, Character.used_fatigue, Trait.points,
\* CharacterSkill.points, CharacterSpell.points) is an integer multiple of
\* 0.25: a write that violates the quarter rule is rejected.
C3_StoredQuartersAreMultiples ==
    \A t \in Tables : \A i \in DOMAIN db[t] : \A f \in QuarterFields(t) :
        IsQuarterMultiple(db[t][i][f])

C9_StoredLookupsAreChoices ==
    \A t \in Tables : \A i \in DOMAIN db[t] : \A f \in LookupFields(t) :
        db[t][i][f] \in Choices(t, f)

====
